---- MODULE Spec2Model ----
(***************************************************************************)
(* Foto-Owl: a library-lending backend (FastAPI handlers over three        *)
(* SQLAlchemy tables).  The state is the three tables; every handler is    *)
(* one action that runs the whole handler, from the authentication         *)
(* dependency to the commit; the bearer token and the wall clock a call    *)
(* reads are inputs of the call.                                           *)
(***************************************************************************)
EXTENDS Integers, Sequences, FiniteSets, TLC

VARIABLES users, books, requests, response, proc, raced

vars == <<users, books, requests, response, proc, raced>>

(* ------------------------------ bounds --------------------------------- *)

\* rows the books table may hold (add_book is not taken beyond it)
MaxBooks == 2
\* rows the borrow_requests table may hold (no insert is taken beyond it)
MaxRequests == 2

\* UserCreate.email values; users.email is unique, so they also bound the table
Emails == {"a@x", "b@x"}
\* UserCreate.password values
Passwords == {"p"}
\* passwords presented to POST /token
LoginPasswords == {"p", "q"}
\* (start_date, end_date) values of a borrow request: two adjacent ranges, a
\* range that overlaps both and an inverted one (the handler does not compare
\* start_date with end_date)
Ranges == {<<1, 2>>, <<2, 3>>, <<1, 3>>, <<3, 1>>}
\* the two concurrent callers of create_admin_user
Procs == {1, 2}
\* expires_delta values handed to create_access_token: {} is None
Deltas == {{}, {0}, {1}, {2}}
\* wall-clock readings (minutes)
Clock == {1, 2}
\* wall-clock readings at which a token is verified
VerifyClock == 1 .. 4

(* --------------------------- token and hashing ------------------------- *)

SECRET_KEY == "f7f8"

\* timedelta(minutes=15), the value of the else branch
DefaultDeltaMinutes == 15

\* Python truthiness of Optional[timedelta]: None and timedelta(0) are false
Truthy(expires_delta) == \E d \in expires_delta : d # 0

\* expire = datetime.now() + expires_delta if expires_delta else timedelta(minutes=15)
\* parses as (datetime.now() + expires_delta) if expires_delta else timedelta(...)
Expire(expires_delta, now) ==
    IF Truthy(expires_delta)
    THEN [kind |-> "datetime", v |-> now + (CHOOSE d \in expires_delta : TRUE)]
    ELSE [kind |-> "timedelta", v |-> DefaultDeltaMinutes]

\* jwt.encode: a datetime exp becomes a timestamp; any other exp is not JSON
\* serialisable and the call raises (the empty set: no token)
jwt_encode(sub, expire, key) ==
    IF expire.kind = "datetime"
    THEN {[sub |-> sub, exp |-> expire.v, key |-> key]}
    ELSE {}

create_access_token(sub, expires_delta, now) ==
    jwt_encode(sub, Expire(expires_delta, now), SECRET_KEY)

\* jwt.decode + payload.get("sub"): 0 stands for the 401 credentials_exception
\* (bad signature, exp in the past, no sub claim).  login writes the id as
\* str(user.id) and the query compares it with the integer key, which the
\* database coerces: the subject is kept as the id.  Clock readings are
\* minutes of one time zone.
jwt_decode_sub(token, now) ==
    IF token.key # SECRET_KEY THEN 0
    ELSE IF token.exp < now THEN 0
    ELSE token.sub

\* the user row the token resolves to, 0 when the dependency raises 401
get_current_user(token, now) ==
    LET user_id == jwt_decode_sub(token, now) IN
    IF user_id \in 1 .. Len(users) THEN user_id ELSE 0

\* a stored credential: what crud.create_user writes is the plaintext
Plain(p) == [bcrypt |-> FALSE, text |-> p]

\* pwd_context.hash
get_password_hash(p) == [bcrypt |-> TRUE, text |-> p]

\* pwd_context.verify: "error" is passlib's UnknownHashError on a stored
\* value that is no bcrypt digest
verify_password(plain_password, hashed_password) ==
    IF ~hashed_password.bcrypt THEN "error"
    ELSE IF hashed_password.text = plain_password THEN "true" ELSE "false"

(* ------------------------------- inputs -------------------------------- *)

UserCreate == [email : Emails, password : Passwords, is_admin : BOOLEAN]

BookCreate == {[title |-> "T", author |-> "A", copies |-> 1]}

BorrowRequestCreate ==
    { [book_id |-> b, start_date |-> r[1], end_date |-> r[2]] :
        b \in 1 .. (MaxBooks + 1), r \in Ranges }

\* bearer tokens a caller may present, each with the clock reading of the call:
\* good tokens for the ids 1 and 2 (an id may have no row yet) and an expired
\* one
Presented ==
    { <<[sub |-> s, exp |-> 2, key |-> SECRET_KEY], 1>> : s \in 1 .. 2 }
    \cup { <<[sub |-> 1, exp |-> 1, key |-> SECRET_KEY], 2>> }

\* every token the verifier may be handed: any subject, expiry and signing key
Tokens == [sub : 0 .. 3, exp : 1 .. 5, key : {SECRET_KEY, "other"}]

(* ------------------------------- helpers ------------------------------- *)

Respond(op, code, body) ==
    response' = [op |-> op, code |-> code, body |-> body]

\* a caller of create_admin_user that has not sent its request
NoProc == [p \in Procs |->
             [pc |-> "idle", email |-> "", password |-> "", is_admin |-> FALSE,
              code |-> 0]]

\* variant: the query never finds a row
ExistingAdminNone(us) == 0

\* db.query(User).filter(User.is_admin == True).first(): its id, 0 for None
ExistingAdmin(us) ==
    IF \E i \in 1 .. Len(us) : us[i].is_admin
    THEN CHOOSE i \in 1 .. Len(us) :
           us[i].is_admin /\ \A j \in 1 .. (i - 1) : ~us[j].is_admin
    ELSE 0

\* variant: the flag of the request body is passed on
BootstrapFlagFromRequest(user) == user.is_admin

\* the is_admin argument create_admin_user hands to crud.create_user
BootstrapFlag(user) == TRUE

\* crud.create_user's default for is_admin, which admin.create_user relies on
DefaultIsAdmin == TRUE

EmailTaken(us, email) == \E i \in 1 .. Len(us) : us[i].email = email

\* crud.create_user: the row it commits
NewUser(email, password, is_admin) ==
    [email |-> email, password |-> Plain(password), is_admin |-> is_admin]

\* variant: the admin check lets every caller through
IsAdminAnyone(cu) == TRUE

\* current_user.is_admin
IsAdmin(cu) == users[cu].is_admin

\* variant: the comparison is inclusive, so a shared endpoint conflicts
OverlapsInclusive(R, start, end) ==
    R.end_date >= start /\ R.start_date <= end

\* the date filter of borrow_request step 2 on one row
Overlaps(R, start, end) ==
    R.end_date > start /\ R.start_date < end

overlapping_request(request) ==
    \E i \in 1 .. Len(requests) :
        /\ requests[i].book_id = request.book_id
        /\ requests[i].status = "approved"
        /\ Overlaps(requests[i], request.start_date, request.end_date)

\* variant: the row is inserted as approved
NewBorrowRequestApproved(cu, request) ==
    [user_id |-> cu, book_id |-> request.book_id,
     start_date |-> request.start_date, end_date |-> request.end_date,
     status |-> "approved"]

\* the row borrow_request inserts
NewBorrowRequest(cu, request) ==
    [user_id |-> cu, book_id |-> request.book_id,
     start_date |-> request.start_date, end_date |-> request.end_date,
     status |-> "pending"]

\* variant: approving an approved request sets it back to pending
ApproveToggles(r) ==
    [r EXCEPT !.status = IF r.status = "approved" THEN "pending" ELSE "approved"]

\* borrow_request.status = "approved"
Approve(r) == [r EXCEPT !.status = "approved"]

(* ------------------------------- state --------------------------------- *)

Init ==
    /\ users = << >>
    /\ books = << >>
    /\ requests = << >>
    /\ response = [op |-> "none", code |-> 0, body |-> {}]
    /\ proc = NoProc
    /\ raced = FALSE

(* ------------------------------ handlers ------------------------------- *)

Ledger == <<users, books, requests>>
Race == <<proc, raced>>

\* POST /token
login(email, password, now) ==
    LET found == { i \in 1 .. Len(users) : users[i].email = email } IN
    /\ IF found = {}
       THEN Respond("login", 401, {})
       ELSE LET id == CHOOSE i \in found : TRUE
                ok == verify_password(password, users[id].password) IN
            IF ok = "error" THEN Respond("login", 500, {})
            ELSE IF ok = "false" THEN Respond("login", 401, {})
            ELSE LET access_token == create_access_token(id, {}, now) IN
                 IF access_token = {} THEN Respond("login", 500, {})
                 ELSE Respond("login", 200, access_token)
    /\ UNCHANGED <<Ledger, Race>>

\* create_access_token called with an explicit or an absent expires_delta
issue_token(sub, expires_delta, now) ==
    LET encoded_jwt == create_access_token(sub, expires_delta, now) IN
    /\ IF encoded_jwt = {}
       THEN Respond("create_access_token", 500, {})
       ELSE Respond("create_access_token", 200, encoded_jwt)
    /\ UNCHANGED <<Ledger, Race>>

\* crud.create_user on the table us: the table after it and the status of
\* the call; a taken email fails the unique index at commit
crud_create_user(us, user, is_admin) ==
    IF EmailTaken(us, user.email)
    THEN [users |-> us, code |-> 500]
    ELSE [users |-> Append(us, NewUser(user.email, user.password, is_admin)),
          code |-> 200]

\* POST /create_admin_user
create_admin_user(user) ==
    /\ IF ExistingAdmin(users) # 0
       THEN Respond("create_admin_user", 400, {}) /\ UNCHANGED users
       ELSE LET r == crud_create_user(users, user, BootstrapFlag(user)) IN
            users' = r.users /\ Respond("create_admin_user", r.code, {})
    /\ UNCHANGED <<books, requests, Race>>

\* POST /create_user
create_user(token, now, user) ==
    LET cu == get_current_user(token, now) IN
    /\ IF cu = 0 THEN Respond("create_user", 401, {}) /\ UNCHANGED users
       ELSE IF ~IsAdmin(cu)
       THEN Respond("create_user", 403, {}) /\ UNCHANGED users
       ELSE LET r == crud_create_user(users, user, DefaultIsAdmin) IN
            users' = r.users /\ Respond("create_user", r.code, {})
    /\ UNCHANGED <<books, requests, Race>>

\* GET /borrow_requests
view_borrow_requests(token, now) ==
    LET cu == get_current_user(token, now) IN
    /\ IF cu = 0 THEN Respond("borrow_requests", 401, {})
       ELSE IF ~IsAdmin(cu) THEN Respond("borrow_requests", 403, {})
       ELSE Respond("borrow_requests", 200, {})
    /\ UNCHANGED <<Ledger, Race>>

\* POST /approve_request/{request_id}
approve_request(token, now, request_id) ==
    LET cu == get_current_user(token, now) IN
    /\ IF cu = 0 THEN Respond("approve_request", 401, {}) /\ UNCHANGED requests
       ELSE IF ~IsAdmin(cu)
       THEN Respond("approve_request", 403, {}) /\ UNCHANGED requests
       ELSE IF request_id \notin 1 .. Len(requests)
       THEN Respond("approve_request", 404, {}) /\ UNCHANGED requests
       ELSE /\ requests' =
                 [requests EXCEPT ![request_id] = Approve(requests[request_id])]
            /\ Respond("approve_request", 200, {})
    /\ UNCHANGED <<users, books, Race>>

\* GET /user/{user_id}/borrow_history
view_user_borrow_history(token, now, user_id) ==
    LET cu == get_current_user(token, now)
        borrow_history ==
            { i \in 1 .. Len(requests) : requests[i].user_id = user_id } IN
    /\ IF cu = 0 THEN Respond("user_borrow_history", 401, {})
       ELSE IF ~IsAdmin(cu) THEN Respond("user_borrow_history", 403, {})
       ELSE IF borrow_history = {} THEN Respond("user_borrow_history", 404, {})
       ELSE Respond("user_borrow_history", 200, {})
    /\ UNCHANGED <<Ledger, Race>>

\* POST /add_book
add_book(token, now, book) ==
    LET cu == get_current_user(token, now) IN
    /\ IF cu = 0 THEN Respond("add_book", 401, {}) /\ UNCHANGED books
       ELSE IF ~IsAdmin(cu) THEN Respond("add_book", 403, {}) /\ UNCHANGED books
       ELSE /\ Len(books) < MaxBooks
            /\ books' = Append(books, book)
            /\ Respond("add_book", 200, {})
    /\ UNCHANGED <<users, requests, Race>>

\* POST /borrow_request
borrow_request(token, now, request) ==
    LET cu == get_current_user(token, now) IN
    /\ IF cu = 0 THEN Respond("borrow_request", 401, {}) /\ UNCHANGED requests
       ELSE IF request.book_id \notin 1 .. Len(books)
       THEN Respond("borrow_request", 404, {}) /\ UNCHANGED requests
       ELSE IF overlapping_request(request)
       THEN Respond("borrow_request", 400, {}) /\ UNCHANGED requests
       ELSE /\ Len(requests) < MaxRequests
            /\ requests' = Append(requests, NewBorrowRequest(cu, request))
            /\ Respond("borrow_request", 200, {})
    /\ UNCHANGED <<users, books, Race>>

Next ==
    \/ \E e \in Emails, p \in LoginPasswords, now \in Clock : login(e, p, now)
    \/ \E u \in UserCreate : create_admin_user(u)
    \/ \E c \in Presented, u \in UserCreate : create_user(c[1], c[2], u)
    \/ \E c \in Presented : view_borrow_requests(c[1], c[2])
    \/ \E c \in Presented, id \in 1 .. (MaxRequests + 1) :
           approve_request(c[1], c[2], id)
    \/ \E c \in Presented, id \in 1 .. 3 :
           view_user_borrow_history(c[1], c[2], id)
    \/ \E c \in Presented, b \in BookCreate : add_book(c[1], c[2], b)
    \/ \E c \in Presented, r \in BorrowRequestCreate :
           borrow_request(c[1], c[2], r)

Spec == Init /\ [][Next]_vars

(* ------------- the store as found at start-up, with a regular user ------ *)

\* main.py creates the tables only if they are missing: a users table written
\* earlier, holding one admin and one regular user, is what the handlers find
PersistedUsers ==
    { << NewUser("a@x", "p", TRUE), NewUser("b@x", "p", FALSE) >>,
      << NewUser("a@x", "p", FALSE), NewUser("b@x", "p", TRUE) >> }

InitPersisted ==
    /\ users \in PersistedUsers
    /\ books = << >>
    /\ requests = << >>
    /\ response = [op |-> "none", code |-> 0, body |-> {}]
    /\ proc = NoProc
    /\ raced = FALSE

SpecPersisted == InitPersisted /\ [][Next]_vars

(* ------------- the token functions applied to every input --------------- *)

\* the Depends(get_current_user) of every protected handler, on its own
verify_token(token, now) ==
    /\ IF get_current_user(token, now) = 0
       THEN Respond("get_current_user", 401, {token})
       ELSE Respond("get_current_user", 200, {token})
    /\ UNCHANGED <<Ledger, Race>>

NextToken ==
    \/ \E s \in 1 .. 3, d \in Deltas, now \in Clock : issue_token(s, d, now)
    \/ \E t \in Tokens, now \in VerifyClock : verify_token(t, now)

SpecToken == InitPersisted /\ [][NextToken]_vars

(* ------------- create_admin_user run by two concurrent callers ---------- *)

\* steps 37-40 of create_admin_user for caller p: the query and the 400
race_check(p, user) ==
    /\ proc[p].pc = "idle"
    /\ IF ExistingAdmin(users) # 0
       THEN /\ proc' = [proc EXCEPT ![p] =
                          [pc |-> "done", email |-> user.email,
                           password |-> user.password,
                           is_admin |-> user.is_admin, code |-> 400]]
            /\ UNCHANGED raced
       ELSE /\ proc' = [proc EXCEPT ![p] =
                          [pc |-> "checked", email |-> user.email,
                           password |-> user.password,
                           is_admin |-> user.is_admin, code |-> 0]]
            /\ raced' = (raced \/ \E q \in Procs \ {p} : proc[q].pc = "checked")
    /\ UNCHANGED <<users, books, requests, response>>

\* step 43 for caller p: crud.create_user adds the row and commits
race_insert(p) ==
    /\ proc[p].pc = "checked"
    /\ LET r == crud_create_user(users, proc[p], BootstrapFlag(proc[p])) IN
         /\ users' = r.users
         /\ proc' = [proc EXCEPT ![p].pc = "done", ![p].code = r.code]
    /\ UNCHANGED <<books, requests, response, raced>>

NextRace ==
    \/ \E p \in Procs, u \in UserCreate : race_check(p, u)
    \/ \E p \in Procs : race_insert(p)

SpecRace == Init /\ [][NextRace]_vars

(* ------------------------------ properties ----------------------------- *)

Admins == { i \in 1 .. Len(users) : users[i].is_admin }

Authenticated(c) == get_current_user(c[1], c[2]) # 0

\* the presented tokens that resolve to an admin, and to a regular user
AdminCallers ==
    { c \in Presented :
        Authenticated(c) /\ users[get_current_user(c[1], c[2])].is_admin }

RegularCallers ==
    { c \in Presented :
        Authenticated(c) /\ ~users[get_current_user(c[1], c[2])].is_admin }

\* C1: for each book, the approved borrow requests have pairwise
\* non-overlapping half-open intervals [start_date, end_date), in every state
\* that borrow_request and approve_request calls can reach.
C1_ApprovedNeverOverlap ==
    \A i, j \in 1 .. Len(requests) :
        ( /\ i # j
          /\ requests[i].book_id = requests[j].book_id
          /\ requests[i].status = "approved"
          /\ requests[j].status = "approved" )
        => ~( /\ requests[i].end_date > requests[j].start_date
              /\ requests[i].start_date < requests[j].end_date )

\* an approved request of book book_id whose range overlaps [start, end)
C2_Conflict(book_id, start, end) ==
    \E i \in 1 .. Len(requests) :
        /\ requests[i].book_id = book_id
        /\ requests[i].status = "approved"
        /\ requests[i].end_date > start
        /\ requests[i].start_date < end

\* C2: for an authenticated caller and an existing book, borrow_request fails
\* with 400 and inserts nothing exactly when an approved request of that book
\* overlaps the requested range (strictly: a shared endpoint is no overlap);
\* otherwise it answers 200 and inserts exactly one record.  Pending requests
\* and requests of other books never block.
C2_AdmissionIffNoApprovedOverlap ==
    [][ response'.op = "borrow_request" =>
        \A c \in Presented, r \in BorrowRequestCreate :
          ( /\ Authenticated(c)
            /\ r.book_id \in 1 .. Len(books)
            /\ borrow_request(c[1], c[2], r) )
          => IF C2_Conflict(r.book_id, r.start_date, r.end_date)
             THEN response'.code = 400 /\ requests' = requests
             ELSE /\ response'.code = 200
                  /\ Len(requests') = Len(requests) + 1
                  /\ SubSeq(requests', 1, Len(requests)) = requests
                  /\ requests'[Len(requests')].book_id = r.book_id
                  /\ requests'[Len(requests')].start_date = r.start_date
                  /\ requests'[Len(requests')].end_date = r.end_date
      ]_vars

\* a borrow_request was refused with 400 while an approved request exists
C2_Witness ==
    /\ response.op = "borrow_request"
    /\ response.code = 400
    /\ \E i \in 1 .. Len(requests) : requests[i].status = "approved"

\* C3: at most one user has is_admin = true, and a user created through
\* create_user is a regular user.
C3_AtMostOneAdmin ==
    /\ Cardinality(Admins) <= 1
    /\ (response.op = "create_user" /\ response.code = 200)
         => ~users[Len(users)].is_admin

\* C4: while an admin exists create_admin_user answers 400 for every input and
\* leaves the users unchanged; with no admin it succeeds and the row it
\* creates has is_admin = true whatever the request carried.
C4_BootstrapOnlyWithoutAdmin ==
    [][ response'.op = "create_admin_user" =>
        \A u \in UserCreate :
          create_admin_user(u)
          => IF Admins # {}
             THEN response'.code = 400 /\ users' = users
             ELSE /\ response'.code = 200
                  /\ Len(users') = Len(users) + 1
                  /\ SubSeq(users', 1, Len(users)) = users
                  /\ users'[Len(users')].email = u.email
                  /\ users'[Len(users')].is_admin
      ]_vars

\* a create_admin_user call was refused because an admin exists
C4_Witness ==
    /\ response.op = "create_admin_user"
    /\ response.code = 400
    /\ Admins # {}

\* C5: for an authenticated caller that is no admin, add_book,
\* approve_request, create_user, borrow_requests and user/{id}/borrow_history
\* answer 403 for every argument and change no table.
C5_NonAdminForbidden ==
    [][ \A c \in RegularCallers :
          ( \/ response'.op = "add_book"
               /\ \E b \in BookCreate : add_book(c[1], c[2], b)
            \/ response'.op = "approve_request"
               /\ \E id \in 1 .. (MaxRequests + 1) :
                      approve_request(c[1], c[2], id)
            \/ response'.op = "create_user"
               /\ \E u \in UserCreate : create_user(c[1], c[2], u)
            \/ response'.op = "borrow_requests"
               /\ view_borrow_requests(c[1], c[2])
            \/ response'.op = "user_borrow_history"
               /\ \E id \in 1 .. 3 : view_user_borrow_history(c[1], c[2], id) )
          => response'.code = 403 /\ Ledger' = Ledger
      ]_vars

\* a regular user was refused the approval of a request that is still pending
C5_Witness ==
    /\ response.op = "approve_request"
    /\ response.code = 403
    /\ \E i \in 1 .. Len(requests) : requests[i].status = "pending"

\* C6: for an admin, approve_request of an id with no row answers 404 and
\* changes nothing; of an existing row it answers 200 whatever the status was
\* and sets only that row's status to approved, so approving an approved
\* request changes nothing.
C6_ApproveIdempotent ==
    [][ response'.op = "approve_request" =>
        \A c \in AdminCallers, id \in 1 .. (MaxRequests + 1) :
          approve_request(c[1], c[2], id)
          => IF id \notin 1 .. Len(requests)
             THEN response'.code = 404 /\ Ledger' = Ledger
             ELSE /\ response'.code = 200
                  /\ Len(requests') = Len(requests)
                  /\ requests'[id].status = "approved"
                  /\ \A i \in 1 .. Len(requests) :
                       /\ i # id => requests'[i] = requests[i]
                       /\ requests'[i].user_id = requests[i].user_id
                       /\ requests'[i].book_id = requests[i].book_id
                       /\ requests'[i].start_date = requests[i].start_date
                       /\ requests'[i].end_date = requests[i].end_date
                  /\ requests[id].status = "approved" => requests' = requests
                  /\ users' = users /\ books' = books
      ]_vars

\* an approval succeeded and left an approved request
C6_Witness ==
    /\ response.op = "approve_request"
    /\ response.code = 200
    /\ \E i \in 1 .. Len(requests) : requests[i].status = "approved"

\* C7: a token issued at time t for subject s carries sub = s and
\* exp = t + ttl, ttl being 15 minutes when none is passed; verifying it
\* before exp returns s and after exp fails.
C7_TokenExpiry ==
    [][ \A s \in 1 .. 3, d \in Deltas, now \in Clock :
          issue_token(s, d, now)
          => LET ttl == IF d = {} THEN 15 ELSE CHOOSE x \in d : TRUE
                 token == [sub |-> s, exp |-> now + ttl, key |-> SECRET_KEY] IN
             /\ response'.body = {token}
             /\ \A t \in 0 .. 40 :
                  /\ t < token.exp => jwt_decode_sub(token, t) = s
                  /\ t > token.exp => jwt_decode_sub(token, t) = 0
      ]_vars

\* C8: the credential stored for a user created with password p is hash(p);
\* POST /token with the user's email and p returns a token whose subject is
\* the user's id, and with an unknown email or another password it answers 401
\* and issues no token.
C8_LoginIssuesToken ==
    [][ /\ \A i \in 1 .. Len(users') : users'[i].password.bcrypt
        /\ \A e \in Emails, p \in LoginPasswords, now \in Clock :
             login(e, p, now)
             => IF \E i \in 1 .. Len(users) :
                     users[i].email = e /\ users[i].password.text = p
                THEN /\ response'.code = 200
                     /\ \E t \in response'.body :
                          /\ users[t.sub].email = e
                          /\ jwt_decode_sub(t, now) = t.sub
                ELSE response'.code = 401 /\ response'.body = {}
      ]_vars

\* C9: a borrow request is created pending with the caller as user_id; its
\* status only goes from pending to approved and stays approved; no step
\* deletes a request or changes its user_id, book_id, start_date, end_date.
C9_RequestLifecycle ==
    [][ /\ Len(requests') >= Len(requests)
        /\ \A i \in 1 .. Len(requests) :
             /\ requests'[i].user_id = requests[i].user_id
             /\ requests'[i].book_id = requests[i].book_id
             /\ requests'[i].start_date = requests[i].start_date
             /\ requests'[i].end_date = requests[i].end_date
             /\ requests[i].status = "approved" => requests'[i].status = "approved"
             /\ requests'[i].status \in {requests[i].status, "approved"}
        /\ \A i \in (Len(requests) + 1) .. Len(requests') :
             requests'[i].status = "pending"
        /\ Len(requests') > Len(requests) =>
             \A c \in Presented, r \in BorrowRequestCreate :
               borrow_request(c[1], c[2], r)
               => requests'[Len(requests')].user_id = get_current_user(c[1], c[2])
      ]_vars

\* the second user's request went from pending to approved
C9_Witness ==
    \E i \in 1 .. Len(requests) :
        requests[i].user_id = 2 /\ requests[i].status = "approved"

BothDone == \A p \in Procs : proc[p].pc = "done"

\* C10: when two callers with distinct emails both run the check of
\* create_admin_user before either commits, both calls succeed and two users
\* hold is_admin = true; when no call checks while another is between its
\* check and its commit, at most one admin exists and at most one call
\* succeeds.
C10_BootstrapRace ==
    /\ ( raced /\ BothDone /\ proc[1].email # proc[2].email )
         => /\ \A p \in Procs : proc[p].code = 200
            /\ Len(users) = 2
            /\ Cardinality(Admins) = 2
    /\ ~raced
         => /\ Cardinality(Admins) <= 1
            /\ Cardinality({ p \in Procs : proc[p].code = 200 }) <= 1

\* both racing calls returned and the table holds two admins
C10_Witness ==
    /\ raced
    /\ BothDone
    /\ \A p \in Procs : proc[p].code = 200
    /\ Cardinality(Admins) = 2

====
